---- MODULE Spec2Model ----
(***************************************************************************)
(* A model of the opentagger autotag service: src/autotag/api.py (the     *)
(* FastAPI handlers) and src/autotag/autotaggers/rrj/rrj.py (the RedRocket *)
(* Joint Tagger: vocabulary loading, image preprocessing, autotag).        *)
(*                                                                         *)
(* Conventions.                                                            *)
(*  - A Python str is a sequence of one-character strings, so that         *)
(*    str.replace, str.strip and str.split are computed, not assumed.      *)
(*  - A Python dict is a sequence of <<key, value>> pairs in insertion     *)
(*    order with pairwise distinct keys.                                   *)
(*  - A probability is an integer level 0..MaxScore standing for the       *)
(*    float level/MaxScore; only the order of scores is ever used by the   *)
(*    code (topk, score >= threshold).                                     *)
(*  - Five specifications share the variables: SpecLoad (the vocabulary     *)
(*    loader run over every bounded tag file), SpecFit (the preprocessing  *)
(*    pipeline run over image sizes), Spec (the server: import, then       *)
(*    requests), SpecAssets (the static files, over every bounded path)    *)
(*    and SpecCalls (autotag called twice on one image), each leaving      *)
(*    the variables of the others untouched.                               *)
(***************************************************************************)
EXTENDS Integers, Sequences, FiniteSets, Bags, TLC

VARIABLES
    pc,                    \* position of the process: see each specification
    tags_data,             \* rrj.py:154   the decoded tag file (a dict str -> int)
    processed_tags_map,    \* rrj.py:164   names with "_" replaced -> index
    load_i,                \* rrj.py:167   position of the loading loop in processed_tags_map
    allowed_tags,          \* rrj.py:166   class index -> tag name ("" when unfilled)
    model,                 \* rrj.py:130   the loaded network (or "None" when the import failed)
    RRJ_TAGGER_AVAILABLE,  \* api.py:42
    rrj_autotag_func,      \* api.py:40
    temp_files,            \* number of autotag_wdv3_*.png files left in the temp directory
    req,                   \* the request being answered (its inputs)
    resp,                  \* the response produced for req, with the effects of producing it
    suspended,             \* the bag of requests waiting at "await image_upload.read()"
    img,                   \* SpecFit: the PIL image given to the transform
    out                    \* SpecFit: what the transform produced

vars == <<pc, tags_data, processed_tags_map, load_i, allowed_tags, model,
          RRJ_TAGGER_AVAILABLE, rrj_autotag_func, temp_files, req, resp,
          suspended, img, out>>

----------------------------------------------------------------------------
(* Bounds of the model. *)

\* Stand-in for model.num_classes (9083 in rrj.py:133): the number of classes.
NumClasses == 3
\* Stand-in for the 250 of min(250, model.num_classes) (rrj.py:213).
TopKCap == 2
\* Probabilities and thresholds take the levels 0..MaxScore.
MaxScore == 2
\* The longest tag file (number of entries of the JSON object).
MaxEntries == 3
\* The longest script output, in tokens.
MaxOut == 3
\* The most temporary files the model lets accumulate.
MaxLeak == 2
\* The most requests the model lets wait at their await at once.
MaxSuspended == 2

Classes == 0 .. (NumClasses - 1)
Scores == 0 .. MaxScore

None == "None"
EmptyStr == << >>

Min(a, b) == IF a <= b THEN a ELSE b

----------------------------------------------------------------------------
(* Python dict, as a sequence of <<key, value>> pairs. *)

DictKeys(d) == [i \in 1 .. Len(d) |-> d[i][1]]

DictHas(d, k) == \E i \in 1 .. Len(d) : d[i][1] = k

\* d[k] = v: an existing key keeps its position and takes the new value, a new
\* key is appended.
DictSet(d, k, v) ==
    IF DictHas(d, k)
    THEN [i \in 1 .. Len(d) |-> IF d[i][1] = k THEN <<k, v>> ELSE d[i]]
    ELSE Append(d, <<k, v>>)

IsDict(d) == \A i, j \in 1 .. Len(d) : d[i][1] = d[j][1] => i = j

----------------------------------------------------------------------------
(* rrj.py:150-174: loading the tag vocabulary. *)

\* name.replace("_", " ")
ReplaceUnderscores(name) ==
    [i \in 1 .. Len(name) |-> IF name[i] = "_" THEN " " ELSE name[i]]

\* Tag names a tag file may hold; "a_b" and "a b" collide after the replacement.
FileNames ==
    { EmptyStr, <<"a">>, <<"b">>, <<"a", "_", "b">>, <<"a", " ", "b">> }

\* Indices a tag file may hold: one below and one above the valid range too.
FileIndices == (-1) .. NumClasses

\* The tag files msgspec decodes to dict[str, int]: every sequence of at most
\* MaxEntries entries with pairwise distinct names.
TagFiles ==
    UNION { { d \in [1 .. n -> FileNames \X FileIndices] : IsDict(d) }
            : n \in 0 .. MaxEntries }

\* {name.replace("_", " "): index for name, index in tags_data.items()}
RECURSIVE ProcessedTagsFrom(_, _, _)
ProcessedTagsFrom(data, i, acc) ==
    IF i > Len(data) THEN acc
    ELSE ProcessedTagsFrom(data, i + 1,
            DictSet(acc, ReplaceUnderscores(data[i][1]), data[i][2]))

ProcessedTagsMap(data) == ProcessedTagsFrom(data, 1, << >>)

\* [""] * model.num_classes
EmptyAllowedTags == [c \in Classes |-> EmptyStr]

\* The loop body with a collision overwriting the earlier tag.
FillTagKeepLast(tags, name, index) ==
    IF 0 <= index /\ index < NumClasses
    THEN [tags EXCEPT ![index] = name]
    ELSE tags

\* One iteration of the loop of rrj.py:167-174.
FillTag(tags, name, index) ==
    IF 0 <= index /\ index < NumClasses
    THEN IF tags[index] # EmptyStr
         THEN tags                              \* collision: keep first assigned
         ELSE [tags EXCEPT ![index] = name]
    ELSE tags                                   \* out of bounds: skipped

RECURSIVE FillFrom(_, _, _)
FillFrom(map, i, tags) ==
    IF i > Len(map) THEN tags
    ELSE FillFrom(map, i + 1, FillTag(tags, map[i][1], map[i][2]))

\* allowed_tags as the module leaves it for a given tag file.
LoadAllowedTags(data) == FillFrom(ProcessedTagsMap(data), 1, EmptyAllowedTags)

----------------------------------------------------------------------------
(* SpecLoad: the loader, one loop iteration per step, over every tag file. *)

NoReq == [endpoint |-> None]
NoResp == [endpoint |-> None]
NoImg == [kind |-> None]
NoOut == [result |-> None]

\* The state in which no request waits at its await, and whether the model
\* takes up one more: the event loop sets no limit, the model follows at most
\* MaxSuspended requests waiting at once.
NoneSuspended == EmptyBag
ClientFree == BagCardinality(suspended) < MaxSuspended
Suspend(call) == suspended (+) SetToBag({call})
Resume(call) == suspended (-) SetToBag({call})

InitLoad ==
    /\ pc = "decoded"
    /\ tags_data \in TagFiles
    /\ processed_tags_map = << >>
    /\ load_i = 0
    /\ allowed_tags = EmptyAllowedTags
    /\ model = [num_classes |-> NumClasses, training |-> FALSE, device |-> "cpu"]
    /\ RRJ_TAGGER_AVAILABLE = FALSE
    /\ rrj_autotag_func = None
    /\ temp_files = 0
    /\ req = NoReq
    /\ resp = NoResp
    /\ img = NoImg
    /\ out = NoOut
    /\ suspended = NoneSuspended

\* rrj.py:164-166
ProcessTags ==
    /\ pc = "decoded"
    /\ processed_tags_map' = ProcessedTagsMap(tags_data)
    /\ allowed_tags' = EmptyAllowedTags
    /\ load_i' = 1
    /\ pc' = "filling"
    /\ UNCHANGED <<tags_data, model, RRJ_TAGGER_AVAILABLE, rrj_autotag_func,
                   temp_files, req, resp, img, out, suspended>>

\* rrj.py:167-174, one iteration
FillNext ==
    /\ pc = "filling"
    /\ load_i <= Len(processed_tags_map)
    /\ allowed_tags' = FillTag(allowed_tags, processed_tags_map[load_i][1],
                               processed_tags_map[load_i][2])
    /\ load_i' = load_i + 1
    /\ UNCHANGED <<pc, tags_data, processed_tags_map, model, RRJ_TAGGER_AVAILABLE,
                   rrj_autotag_func, temp_files, req, resp, img, out, suspended>>

\* the loop is exhausted: the vocabulary is loaded
FillDone ==
    /\ pc = "filling"
    /\ load_i > Len(processed_tags_map)
    /\ pc' = "loaded"
    /\ UNCHANGED <<tags_data, processed_tags_map, load_i, allowed_tags, model,
                   RRJ_TAGGER_AVAILABLE, rrj_autotag_func, temp_files, req, resp,
                   img, out, suspended>>

NextLoad == ProcessTags \/ FillNext \/ FillDone

SpecLoad == InitLoad /\ [][NextLoad]_vars

----------------------------------------------------------------------------
(* rrj.py:32-127: the preprocessing pipeline.  A PIL image is                *)
(* [kind, mode, w, h]; a tensor is its shape <<C, H, W>>.                    *)

\* Fit((384, 384), pad=0.5) and CenterCrop((384, 384)), rrj.py:122 and 126
FitBound == 384
CropSize == 384

\* Python round() of the non-negative rational n/d: half to even.
RoundHalfEven(n, d) ==
    LET f == n \div d
        r == n % d
    IN  IF 2 * r < d THEN f
        ELSE IF 2 * r > d THEN f + 1
        ELSE IF f % 2 = 0 THEN f ELSE f + 1

\* The odd part of a positive integer.
RECURSIVE OddPart(_)
OddPart(n) == IF n % 2 = 0 THEN OddPart(n \div 2) ELSE n

RECURSIVE Pow2(_)
Pow2(n) == IF n = 0 THEN 1 ELSE 2 * Pow2(n - 1)

\* floor(log2(n)) of n >= 1
RECURSIVE FloorLog2(_)
FloorLog2(n) == IF n < 2 THEN 0 ELSE 1 + FloorLog2(n \div 2)

\* r * 2^n mod m
RECURSIVE ShiftMod(_, _, _)
ShiftMod(r, n, m) == IF n = 0 THEN r % m ELSE ShiftMod((2 * r) % m, n - 1, m)

\* The least shift g' >= g with a * 2^g' >= b.
RECURSIVE LeastShift(_, _, _)
LeastShift(a, b, g) == IF a * Pow2(g) >= b THEN g ELSE LeastShift(a, b, g + 1)

\* round(side * scale) of rrj.py:60-61 with scale the double num / den, as
\* IEEE doubles compute it (num the bound, den the longer side).  The error
\* of the two roundings is far below the distance of a fraction side*num/den
\* from the next half-integer, so the result is that of the exact product
\* unless the exact product is a half-integer k + 1/2.  Then:
\*   - num / den = no / lo * 2^j with no, lo odd; it is a double when lo
\*     divides no, and the product is the exact half;
\*   - else its 53-bit significand is no / lo * 2^(52 + g) rounded, r the
\*     remainder of that division: the double lies below the quotient by
\*     r / lo units of the last place when 2r < lo (down) and above it by
\*     (lo - r) / lo otherwise;
\*   - the product side * scale, rounded to a double, is the half itself
\*     when that error, scaled by side, is within half a unit of the last
\*     place of k + 1/2 (stays), and a double just below or above it
\*     otherwise, which round() takes to k or to k + 1.
\* Exact for sides below 2^19 (32-bit arithmetic).
RoundScaled(side, num, den) ==
    LET n == side * num
        k == n \div den
        half == (2 * n) % den = 0 /\ ((2 * n) \div den) % 2 = 1
        no == OddPart(num)
        lo == OddPart(den)
        g == LeastShift(no, lo, 0)
        r == ShiftMod(no, 52 + g, lo)
        down == 2 * r < lo
        e == IF down THEN r ELSE lo - r
        ex == IF k = 0 THEN -1 ELSE FloorLog2(k)
        stays == OddPart(side) * e <= lo * Pow2(ex + g)
    IN  IF ~half \/ no % lo = 0 \/ stays THEN RoundHalfEven(n, den)
        ELSE IF down THEN k ELSE k + 1

\* PIL's Image.resize refuses a target size with a side below 1 (ValueError).
ResizeRaises(hnew, wnew) == hnew < 1 \/ wnew < 1

\* rrj.py:62-73: the resize to (hnew, wnew) and the padding to the bounds.
FitResizePad(hnew, wnew) ==
    LET hpad == FitBound - hnew
        wpad == FitBound - wnew
        tpad == hpad \div 2
        bpad == hpad - tpad
        lpad == wpad \div 2
        rpad == wpad - lpad
    IN  IF ResizeRaises(hnew, wnew)
        THEN [result |-> "raise", exc |-> "ValueError", resized |-> TRUE,
              hnew |-> hnew, wnew |-> wnew,
              lpad |-> lpad, tpad |-> tpad, rpad |-> rpad, bpad |-> bpad]
        ELSE [result |-> "image", w |-> wnew + lpad + rpad, h |-> hnew + tpad + bpad,
              resized |-> TRUE, hnew |-> hnew, wnew |-> wnew,
              lpad |-> lpad, tpad |-> tpad, rpad |-> rpad, bpad |-> bpad]

\* Fit.forward, rrj.py:46-73, with bounds (384, 384), grow = True, pad = 0.5.
\* The scale min(hbound/himg, wbound/wimg) is the double nearest to num/den;
\* RoundScaled gives round(himg * scale) and round(wimg * scale).
FitForward(image) ==
    LET wimg == image.w
        himg == image.h
        hbound == FitBound
        wbound == FitBound
        \* scale = min(hscale, wscale) = num / den
        useH == hbound * wimg <= wbound * himg
        num == IF useH THEN hbound ELSE wbound
        den == IF useH THEN himg ELSE wimg
        \* abs(scale - 1.0) < 1e-6
        gap == IF num >= den THEN num - den ELSE den - num
        nearOne == gap <= (den - 1) \div 1000000
    IN  IF nearOne
        THEN [result |-> "image", w |-> wimg, h |-> himg, resized |-> FALSE,
              hnew |-> himg, wnew |-> wimg,
              lpad |-> 0, tpad |-> 0, rpad |-> 0, bpad |-> 0]
        ELSE FitResizePad(Min(RoundScaled(himg, num, den), hbound),
                          Min(RoundScaled(wimg, num, den), wbound))

\* Number of bands of a PIL mode (ToTensor yields one channel per band).
Bands(mode) == IF mode = "RGBA" THEN 4 ELSE IF mode = "RGB" THEN 3 ELSE 1

\* transforms.ToTensor(), rrj.py:123: PIL (w, h) -> tensor (C, H, W)
ToTensor(mode, fitted) == <<Bands(mode), fitted.h, fitted.w>>

\* device, rrj.py:16: "cuda" when torch.cuda.is_available(), else "cpu"
Devices == {"cpu", "cuda"}

\* CompositeAlpha.forward, rrj.py:100-111.  The tensor t comes from ToTensor
\* and lies on the CPU; self.background (rrj.py:98) lies on background_device,
\* and torch raises RuntimeError when a product mixes a CPU tensor with a
\* CUDA tensor that has dimensions.
CompositeAlphaForward(t, background_device) ==
    IF t[1] = 3 THEN [result |-> "tensor", shape |-> t]
    ELSE IF t[1] # 4 THEN [result |-> "raise", exc |-> "ValueError"]
    ELSE IF background_device # "cpu" THEN [result |-> "raise", exc |-> "RuntimeError"]
    ELSE [result |-> "tensor", shape |-> <<3, t[2], t[3]>>]

\* transforms.Normalize(mean, std, inplace=True), rrj.py:125: shape kept
Normalize(t) == t

\* transforms.CenterCrop((384, 384)), rrj.py:126: crops a larger side and
\* pads a smaller one, so both sides come out at the crop size
CenterCrop(t) == <<t[1], CropSize, CropSize>>

\* convert with PIL told to load truncated files (LOAD_TRUNCATED_IMAGES).
ConvertRGBALenient(image) ==
    [result |-> "image", image |-> [image EXCEPT !.mode = "RGBA"]]

\* image.convert('RGBA'), rrj.py:204: loads the pixel data, which fails for a
\* file whose data is truncated or corrupt (OSError)
ConvertRGBA(image) ==
    IF image.kind = "truncated"
    THEN [result |-> "raise", exc |-> "OSError"]
    ELSE [result |-> "image", image |-> [image EXCEPT !.mode = "RGBA"]]

\* ToTensor, CompositeAlpha, Normalize and CenterCrop (rrj.py:123-126) of
\* what Fit returned.
TransformFitted(mode, fitted, background_device) ==
    IF fitted.result = "raise"
    THEN [result |-> "raise", exc |-> fitted.exc, shape |-> << >>]
    ELSE IF CompositeAlphaForward(ToTensor(mode, fitted), background_device).result = "raise"
    THEN [result |-> "raise", shape |-> << >>,
          exc |-> CompositeAlphaForward(ToTensor(mode, fitted), background_device).exc]
    ELSE [result |-> "tensor", exc |-> None,
          shape |-> CenterCrop(Normalize(
                        CompositeAlphaForward(ToTensor(mode, fitted),
                                              background_device).shape))]

\* transform(img_converted), rrj.py:121-127 and 206
TransformConverted(conv, background_device) ==
    IF conv.result = "raise"
    THEN [result |-> "raise", exc |-> conv.exc, shape |-> << >>]
    ELSE TransformFitted(conv.image.mode, FitForward(conv.image), background_device)

\* rrj.py:204-207: convert, then the Compose of rrj.py:121-127
Transform(image, background_device) ==
    TransformConverted(ConvertRGBA(image), background_device)

\* Image sides the model tries: around the bound, its half, its double (the
\* aspect ratio 768:1 and beyond), small ones, and 55 with 2816, whose scaled
\* side 384 * 55 / 2816 is the half 7.5 in exact arithmetic and just below it
\* in doubles.
DimSamples == {1, 2, 3, 55, 100, 192, 383, 384, 385, 767, 768, 769, 1000, 2816}

ImageModes == {"RGB", "RGBA", "L"}

\* Images PIL opens and loads.
GoodImages ==
    [kind : {"ok"}, mode : ImageModes, w : DimSamples, h : DimSamples]

----------------------------------------------------------------------------
(* SpecFit: the pipeline, one transform per step, over the sampled images. *)

InitFit ==
    /\ pc = "pil"
    /\ img \in GoodImages
    /\ out = NoOut
    /\ suspended = NoneSuspended
    /\ tags_data = << >>
    /\ processed_tags_map = << >>
    /\ load_i = 0
    /\ allowed_tags = EmptyAllowedTags
    /\ model \in [num_classes : {NumClasses}, training : {FALSE}, device : Devices]
    /\ RRJ_TAGGER_AVAILABLE = TRUE
    /\ rrj_autotag_func = "autotag"
    /\ temp_files = 0
    /\ req = NoReq
    /\ resp = NoResp

FitFrame ==
    UNCHANGED <<img, tags_data, processed_tags_map, load_i, allowed_tags, model,
                RRJ_TAGGER_AVAILABLE, rrj_autotag_func, temp_files, req, resp,
                suspended>>

\* rrj.py:204 then Fit (rrj.py:122)
StepFit ==
    /\ pc = "pil"
    /\ LET conv == ConvertRGBA(img)
           fitted == FitForward(conv.image)
       IN  /\ out' = [result |-> fitted.result, mode |-> conv.image.mode, fit |-> fitted]
           /\ pc' = IF fitted.result = "raise" THEN "raised" ELSE "fitted"
    /\ FitFrame

\* ToTensor and CompositeAlpha (rrj.py:123-124)
StepTensor ==
    /\ pc = "fitted"
    /\ LET comp == CompositeAlphaForward(ToTensor(out.mode, out.fit), model.device)
       IN  /\ out' = [result |-> comp.result, fit |-> out.fit,
                      shape |-> IF comp.result = "tensor" THEN comp.shape ELSE << >>]
           /\ pc' = IF comp.result = "raise" THEN "raised" ELSE "composited"
    /\ FitFrame

\* Normalize and CenterCrop (rrj.py:125-126)
StepCrop ==
    /\ pc = "composited"
    /\ out' = [out EXCEPT !.shape = CenterCrop(Normalize(out.shape))]
    /\ pc' = "transformed"
    /\ FitFrame

NextFit == StepFit \/ StepTensor \/ StepCrop

SpecFit == InitFit /\ [][NextFit]_vars

----------------------------------------------------------------------------
(* rrj.py:183-232: autotag. *)

\* num_top_k = min(250, model.num_classes), rrj.py:213
NumTopK == Min(TopKCap, NumClasses)

Injective(f) == \A i, j \in DOMAIN f : f[i] = f[j] => i = j

\* probits.topk(num_top_k) returning the k classes in class order (unsorted).
TopkUnsorted(probits) ==
    { s \in [1 .. NumTopK -> Classes] :
        /\ \A i, j \in 1 .. NumTopK : i < j => s[i] < s[j]
        /\ \A c \in Classes : (\A i \in 1 .. NumTopK : s[i] # c)
                => \A i \in 1 .. NumTopK : probits[c] <= probits[s[i]] }

\* probits.topk(num_top_k), rrj.py:214: the indices of the k largest values,
\* largest first.  torch leaves the order among equal values open, so every
\* order of the ties is a possible result.
Topk(probits) ==
    { s \in [1 .. NumTopK -> Classes] :
        /\ Injective(s)
        /\ \A i, j \in 1 .. NumTopK : i < j => probits[s[i]] >= probits[s[j]]
        /\ \A c \in Classes : (\A i \in 1 .. NumTopK : s[i] # c)
                => \A i \in 1 .. NumTopK : probits[c] <= probits[s[i]] }

\* The loop with the threshold test dropped.
RECURSIVE FilterTagsNoThreshold(_, _, _, _, _, _)
FilterTagsNoThreshold(probits, top_indices, threshold, tags, i, acc) ==
    IF i > Len(top_indices) THEN acc
    ELSE LET tag_name == tags[top_indices[i]] IN
         FilterTagsNoThreshold(probits, top_indices, threshold, tags, i + 1,
            IF tag_name = EmptyStr THEN acc
            ELSE DictSet(acc, tag_name, probits[top_indices[i]]))

\* The loop with a strict comparison, score > threshold.
RECURSIVE FilterTagsStrict(_, _, _, _, _, _)
FilterTagsStrict(probits, top_indices, threshold, tags, i, acc) ==
    IF i > Len(top_indices) THEN acc
    ELSE LET score == probits[top_indices[i]]
             tag_name == tags[top_indices[i]]
         IN  IF score > threshold
             THEN FilterTagsStrict(probits, top_indices, threshold, tags, i + 1,
                    IF tag_name = EmptyStr THEN acc
                    ELSE DictSet(acc, tag_name, score))
             ELSE acc

\* The loop without the test of the tag name: unnamed classes are kept.
RECURSIVE FilterTagsKeepEmpty(_, _, _, _, _, _)
FilterTagsKeepEmpty(probits, top_indices, threshold, tags, i, acc) ==
    IF i > Len(top_indices) THEN acc
    ELSE LET score == probits[top_indices[i]]
             tag_name == tags[top_indices[i]]
         IN  IF score >= threshold
             THEN FilterTagsKeepEmpty(probits, top_indices, threshold, tags, i + 1,
                    DictSet(acc, tag_name, score))
             ELSE acc

\* The loop of rrj.py:219-230 from position i on, acc being filtered_tags.
RECURSIVE FilterTags(_, _, _, _, _, _)
FilterTags(probits, top_indices, threshold, tags, i, acc) ==
    IF i > Len(top_indices) THEN acc
    ELSE LET score == probits[top_indices[i]]
             tag_name == tags[top_indices[i]]
         IN  IF score >= threshold
             THEN FilterTags(probits, top_indices, threshold, tags, i + 1,
                    IF tag_name = EmptyStr
                    THEN acc                                  \* continue
                    ELSE DictSet(acc, tag_name, score))
             ELSE acc                                         \* break

\* What the network does with one input: forward is "ok" or the exception the
\* forward pass raises, probits the sigmoid output, top_indices the indices
\* topk returned for it.
NoRun == [forward |-> None, probits |-> << >>, top_indices |-> << >>]

ModelRuns ==
    { [forward |-> "RuntimeError", probits |-> << >>, top_indices |-> << >>] }
    \cup
    { [forward |-> "ok", probits |-> p, top_indices |-> t] :
        <<p, t>> \in { pt \in [Classes -> Scores] \X [1 .. NumTopK -> Classes] :
                        pt[2] \in Topk(pt[1]) } }

\* rrj.py:209-232: the forward pass and the filtering, t being the outcome
\* of the transform.
AutotagTransformed(t, threshold, run, tags) ==
    IF t.result = "raise"
    THEN [result |-> "raise", exc |-> t.exc, value |-> << >>, model_invoked |-> FALSE]
    ELSE IF run.forward # "ok"
    THEN [result |-> "raise", exc |-> run.forward, value |-> << >>,
          model_invoked |-> TRUE]
    ELSE [result |-> "return", exc |-> None, model_invoked |-> TRUE,
          value |-> FilterTags(run.probits, run.top_indices, threshold, tags,
                               1, << >>)]

\* autotag(image, threshold), rrj.py:183-232.  The result is
\* [result |-> "return", value |-> filtered_tags] or the exception raised;
\* model_invoked tells whether model(tensor_batch) was reached.
Autotag(image, threshold, run, tags, background_device) ==
    AutotagTransformed(Transform(image, background_device), threshold, run, tags)

----------------------------------------------------------------------------
(* Exceptions: the classes the handlers tell apart. *)

IsInstance(cls, base) ==
    \/ cls = base
    \/ base = "Exception"
    \/ base = "OSError" /\ cls \in {"FileNotFoundError", "UnidentifiedImageError"}

\* A response, with what producing it did: whether the upload was read,
\* whether Image.open succeeded, whether the script or the network ran, and the
\* temporary files it created and deleted.
Response(endpoint, status, detail, tags, details, fx) ==
    [endpoint |-> endpoint, status |-> status, detail |-> detail,
     tags |-> tags, details |-> details, fx |-> fx,
     body |-> [status |-> "", wdv3 |-> "", rrj |-> ""]]

NoFx == [read |-> FALSE, opened |-> FALSE, script_invoked |-> FALSE,
         model_invoked |-> FALSE, tmp_created |-> 0, tmp_deleted |-> 0]

FxRead == [NoFx EXCEPT !.read = TRUE]
FxOpened == [FxRead EXCEPT !.opened = TRUE]

\* An exception in flight; status and detail are those of an HTTPException.
Raise(cls, status, detail, fx) ==
    [kind |-> "raise", cls |-> cls, status |-> status, detail |-> detail,
     tags |-> << >>, details |-> << >>, fx |-> fx, path_set |-> FALSE]

----------------------------------------------------------------------------
(* api.py:143-181: the wd-vit-tagger-v3 endpoint. *)

\* A script output is a sequence of tokens: the marker "Tags:" (in any case,
\* the search being re.IGNORECASE), a space, a newline, a comma, a letter.
OutChars == {"Tags:", " ", "\n", ",", "a"}

Stdouts == UNION { [1 .. n -> OutChars] : n \in 0 .. MaxOut }

IsSpace(ch) == ch \in {" ", "\n"}

\* re.search(r"Tags:\s*(.*)", script_output, re.IGNORECASE), api.py:157:
\* the leftmost marker, then \s* takes all the whitespace that follows
\* (newlines included), then (.*) takes the rest of the line it stopped on.
SearchTags(s) ==
    LET markers == { i \in 1 .. Len(s) : s[i] = "Tags:" } IN
    IF markers = {} THEN [matched |-> FALSE, group |-> << >>]
    ELSE
    LET m == CHOOSE i \in markers : \A k \in markers : i <= k
        j == CHOOSE x \in (m + 1) .. (Len(s) + 1) :
                /\ \A k \in (m + 1) .. (x - 1) : IsSpace(s[k])
                /\ x = Len(s) + 1 \/ ~IsSpace(s[x])
        e == CHOOSE x \in (j - 1) .. Len(s) :
                /\ \A k \in j .. x : s[k] # "\n"
                /\ x = Len(s) \/ s[x + 1] = "\n"
    IN  [matched |-> TRUE, group |-> SubSeq(s, j, e)]

\* str.split(','): the pieces between the commas, empty ones included
RECURSIVE SplitComma(_)
SplitComma(s) ==
    LET commas == { i \in 1 .. Len(s) : s[i] = "," } IN
    IF commas = {} THEN << s >>
    ELSE LET c == CHOOSE i \in commas : \A k \in commas : i <= k
         IN  << SubSeq(s, 1, c - 1) >> \o SplitComma(SubSeq(s, c + 1, Len(s)))

\* str.strip()
Strip(s) ==
    LET keep == { i \in 1 .. Len(s) : ~IsSpace(s[i]) } IN
    IF keep = {} THEN << >>
    ELSE LET a == CHOOSE i \in keep : \A k \in keep : i <= k
             b == CHOOSE i \in keep : \A k \in keep : k <= i
         IN  SubSeq(s, a, b)

\* [tag.strip() for tag in group.split(',') if tag.strip()], api.py:159
RECURSIVE StripNonEmpty(_)
StripNonEmpty(pieces) ==
    IF pieces = << >> THEN << >>
    ELSE LET t == Strip(Head(pieces)) IN
         (IF t = << >> THEN << >> ELSE << t >>) \o StripNonEmpty(Tail(pieces))

TagsList(group) == StripNonEmpty(SplitComma(group))

ParseFailDetail == "WDv3: Failed to parse tags from script output."

\* What subprocess.run does: the script exits 0, exits non-zero
\* (CalledProcessError), or run itself raises (the interpreter is not found,
\* the output is not text).
ProcOutcomes == {"exit0", "nonzero", "FileNotFoundError", "UnicodeDecodeError"}

\* run_wdv3_autotagger_script, api.py:120-141
RunWdv3Script(script_present, proc, stdout, fx) ==
    IF ~script_present
    THEN Raise("FileNotFoundError", 0, "WDv3 Autotagger script not found", fx)
    ELSE LET fx2 == [fx EXCEPT !.script_invoked = (proc # "FileNotFoundError")] IN
         IF proc = "exit0"
         THEN [kind |-> "return", stdout |-> stdout, fx |-> fx2]
         ELSE IF proc = "nonzero"
         THEN Raise("RuntimeError", 0, "WDv3 Autotagger script execution failed", fx2)
         ELSE Raise(proc, 0, "", fx2)

\* api.py:157-164: the parse of the script's output.
Wdv3Parse(ran) ==
    IF ran.kind = "raise" THEN [ran EXCEPT !.path_set = TRUE]
    ELSE IF SearchTags(ran.stdout).matched
    THEN [kind |-> "return", cls |-> None, status |-> 200, detail |-> "",
          tags |-> TagsList(SearchTags(ran.stdout).group), details |-> << >>,
          fx |-> ran.fx, path_set |-> TRUE]
    ELSE [Raise("HTTPException", 500, ParseFailDetail, ran.fx)
            EXCEPT !.path_set = TRUE]

\* The try body of autotag_wdv3_endpoint, api.py:148-164: a "return" with the
\* tags, or the exception raised; path_set tells whether temp_file_path was
\* assigned (api.py:152), fx.tmp_created whether the file was created.
Wdv3Try(image, script_present, proc, stdout) ==
    IF image.kind = "undecodable"
    THEN Raise("UnidentifiedImageError", 0, "", FxRead)          \* Image.open
    ELSE IF image.kind = "truncated"                             \* pil_image.save
    THEN Raise("OSError", 0, "", [FxOpened EXCEPT !.tmp_created = 1])
    ELSE Wdv3Parse(RunWdv3Script(script_present, proc, stdout,
                                 [FxOpened EXCEPT !.tmp_created = 1]))

\* The except clauses without "except HTTPException: raise".
Wdv3ExceptNoPassThrough(e) ==
    IF IsInstance(e.cls, "FileNotFoundError")
    THEN [status |-> 500, detail |-> "WDv3: Server configuration error"]
    ELSE IF IsInstance(e.cls, "RuntimeError")
    THEN [status |-> 500, detail |-> e.detail]
    ELSE [status |-> 500, detail |-> "WDv3: Internal Server Error"]

\* The except clauses of api.py:165-174, in their order.
Wdv3Except(e) ==
    IF IsInstance(e.cls, "FileNotFoundError")
    THEN [status |-> 500, detail |-> "WDv3: Server configuration error"]
    ELSE IF IsInstance(e.cls, "RuntimeError")
    THEN [status |-> 500, detail |-> e.detail]
    ELSE IF IsInstance(e.cls, "HTTPException")
    THEN [status |-> e.status, detail |-> e.detail]
    ELSE [status |-> 500, detail |-> "WDv3: Internal Server Error"]

\* api.py:175-181: the finally clause.  The file is unlinked when
\* temp_file_path was assigned and unlink succeeds.
Wdv3Finally(t, unlink_ok) ==
    [t.fx EXCEPT !.tmp_deleted =
        IF t.path_set /\ t.fx.tmp_created = 1 /\ unlink_ok THEN 1 ELSE 0]

\* The response for the outcome t of the try body.
Wdv3Respond(t, unlink_ok) ==
    IF t.kind = "return"
    THEN Response("wdv3", 200, "", t.tags, << >>, Wdv3Finally(t, unlink_ok))
    ELSE Response("wdv3", Wdv3Except(t).status, Wdv3Except(t).detail, << >>, << >>,
                  Wdv3Finally(t, unlink_ok))

\* autotag_wdv3_endpoint, api.py:145-181
Wdv3Endpoint(image, script_present, proc, stdout, unlink_ok) ==
    Wdv3Respond(Wdv3Try(image, script_present, proc, stdout), unlink_ok)

----------------------------------------------------------------------------
(* api.py:183-227: the redrocket-joint-tagger endpoint. *)

RrjUnavailableDetail ==
    "RedRocket Joint Tagger is not available due to an initialization error. Check server logs."

\* The guard left out.
RrjGuardMissing(available, func) == FALSE

\* api.py:189
RrjGuard(available, func) == ~available \/ func = None

\* The except clauses of api.py:214-227, in their order.
RrjExcept(e) ==
    IF IsInstance(e.cls, "FileNotFoundError")
    THEN [status |-> 500, detail |-> "RRJ: Server configuration or missing file"]
    ELSE IF IsInstance(e.cls, "RuntimeError")
    THEN [status |-> 500, detail |-> "RRJ: Error during tagging process"]
    ELSE IF IsInstance(e.cls, "TypeError")
    THEN [status |-> 400, detail |-> "RRJ: Invalid input for tagger"]
    ELSE IF IsInstance(e.cls, "HTTPException")
    THEN [status |-> e.status, detail |-> e.detail]
    ELSE [status |-> 500, detail |-> "RRJ: Internal Server Error during tagging"]

\* api.py:201-212: what the handler makes of autotag's outcome r.
RrjCalled(r) ==
    IF r.result = "raise"
    THEN Raise(r.exc, 0, "", [FxOpened EXCEPT !.model_invoked = r.model_invoked])
    ELSE [kind |-> "return", cls |-> None, status |-> 200, detail |-> "",
          tags |-> DictKeys(r.value), details |-> r.value,
          fx |-> [FxOpened EXCEPT !.model_invoked = r.model_invoked],
          path_set |-> FALSE]

\* The try body of autotag_rrj_endpoint, api.py:194-212.
RrjTry(func, tags, image, threshold, run, background_device) ==
    IF image.kind = "undecodable"
    THEN Raise("UnidentifiedImageError", 0, "", FxRead)          \* Image.open
    ELSE IF func = None
    THEN Raise("TypeError", 0, "", FxOpened)                     \* None(...)
    ELSE RrjCalled(Autotag(image, threshold, run, tags, background_device))

\* The response for the outcome t of the try body: the JSONResponse of
\* api.py:212 or the HTTPException of the except clause that catches it.
RrjRespond(t) ==
    IF t.kind = "return"
    THEN Response("rrj", 200, "", t.tags, t.details, t.fx)
    ELSE Response("rrj", RrjExcept(t).status, RrjExcept(t).detail, << >>, << >>, t.fx)

\* autotag_rrj_endpoint, api.py:185-227
RrjUnavailable == Response("rrj", 503, RrjUnavailableDetail, << >>, << >>, NoFx)

RrjEndpoint(available, func, tags, image, threshold, run, background_device) ==
    IF RrjGuard(available, func)
    THEN RrjUnavailable
    ELSE RrjRespond(RrjTry(func, tags, image, threshold, run, background_device))

----------------------------------------------------------------------------
(* api.py:104-117 and 229-250: the health check and the static files. *)

\* health_check, api.py:106-117 (the timestamp is left out)
HealthCheck(available) ==
    [Response("health", 200, "", << >>, << >>, NoFx) EXCEPT
        !.body = [status |-> "ok", wdv3 |-> "available",
                  rrj |-> IF available THEN "available" ELSE "unavailable"]]

\* serve_tagger_html, api.py:231-236
ServeTaggerHtml(is_file) ==
    IF ~is_file THEN Response("root", 404, "'tagger.html' not found", << >>, << >>, NoFx)
    ELSE Response("root", 200, "", << >>, << >>, NoFx)

\* serve_static_files, api.py:240-250
ServeStaticFiles(is_file) ==
    IF ~is_file THEN Response("assets", 404, "File not found in assets directory.",
                              << >>, << >>, NoFx)
    ELSE Response("assets", 200, "", << >>, << >>, NoFx)

----------------------------------------------------------------------------
(* Spec: the server.  The import of api.py runs first (pc = "import"), then  *)
(* requests are answered one at a time (pc = "serving"); a response stays in *)
(* resp until it is sent.                                                    *)

\* The tag of class c in the sample vocabularies: "t_<c>" in the file.
SampleName(c) == <<"t", "_", ToString(c)>>

\* Tag files the server is started with: one naming every class, one leaving
\* class 0 without a name, one naming every class but the last and giving one
\* index twice.
DenseFile == [i \in 1 .. NumClasses |-> <<SampleName(i - 1), i - 1>>]
SparseFile == [i \in 1 .. (NumClasses - 1) |-> <<SampleName(i), i>>]
CollisionFile ==
    [i \in 1 .. NumClasses |-> <<SampleName(i - 1), IF i = NumClasses THEN 0 ELSE i - 1>>]

ServerTagFiles == {DenseFile, SparseFile, CollisionFile}

UndecodableImage == [kind |-> "undecodable", mode |-> None, w |-> 0, h |-> 0]

\* Uploads: bytes PIL cannot identify, files whose header opens but whose
\* data does not load, and good images (square, moderately and extremely wide).
ServerImages ==
    {UndecodableImage}
    \cup { [kind |-> "truncated", mode |-> "RGB", w |-> 100, h |-> 50] }
    \cup { [kind |-> "ok", mode |-> "RGB", w |-> d[1], h |-> d[2]] :
            d \in {<<384, 384>>, <<100, 50>>, <<768, 1>>} }

\* threshold: float = Query(0.2, ge=0.0, le=1.0), api.py:187
Thresholds == Scores

Init ==
    /\ pc = "import"
    /\ tags_data \in ServerTagFiles
    /\ processed_tags_map = << >>
    /\ load_i = 0
    /\ allowed_tags = EmptyAllowedTags
    /\ model = None
    /\ RRJ_TAGGER_AVAILABLE = FALSE
    /\ rrj_autotag_func = None
    /\ temp_files = 0
    /\ req = NoReq
    /\ resp = NoResp
    /\ img = NoImg
    /\ out = NoOut
    /\ suspended = NoneSuspended

\* api.py:39-42: rrj.py is imported, which loads the network (rrj.py:130-148)
\* and the vocabulary (rrj.py:151-174)
ImportRrjOk ==
    /\ pc = "import"
    /\ \E device \in Devices :
          model' = [num_classes |-> NumClasses, training |-> FALSE, device |-> device]
    /\ processed_tags_map' = ProcessedTagsMap(tags_data)
    /\ load_i' = Len(processed_tags_map') + 1
    /\ allowed_tags' = LoadAllowedTags(tags_data)
    /\ RRJ_TAGGER_AVAILABLE' = TRUE
    /\ rrj_autotag_func' = "autotag"
    /\ pc' = "serving"
    /\ UNCHANGED <<tags_data, temp_files, req, resp, img, out, suspended>>

\* api.py:43-52: the import raised (ImportError, a failed download, a missing
\* tag file)
ImportRrjFailed ==
    /\ pc = "import"
    /\ RRJ_TAGGER_AVAILABLE' = FALSE
    /\ rrj_autotag_func' = None
    /\ pc' = "serving"
    /\ UNCHANGED <<tags_data, processed_tags_map, load_i, allowed_tags, model,
                   temp_files, req, resp, img, out, suspended>>

\* The availability flag after a request to the RRJ endpoint, were the
\* handler to switch the tagger off when a request fails.
RrjAvailableAfterDisabling(response) ==
    IF response.status = 500 THEN FALSE ELSE RRJ_TAGGER_AVAILABLE

\* The availability flag after a request to the RRJ endpoint: the handler
\* (api.py:185-227) assigns no module-level name.
RrjAvailableAfter(response) == RRJ_TAGGER_AVAILABLE

\* What no handler assigns: the vocabulary and the network.
LoadedFrame ==
    UNCHANGED <<pc, tags_data, processed_tags_map, load_i, allowed_tags, model,
                rrj_autotag_func, img, out>>

Ready == pc = "serving" /\ resp = NoResp

\* GET /health; script_present records whether the WDv3 script file exists
\* (AUTOTAGGER_WDV3_SCRIPT_PATH.is_file(), api.py:121) when the request is served.
Health ==
    /\ Ready
    /\ \E script_present \in BOOLEAN :
          req' = [endpoint |-> "health", script_present |-> script_present]
    /\ resp' = HealthCheck(RRJ_TAGGER_AVAILABLE)
    /\ UNCHANGED <<RRJ_TAGGER_AVAILABLE, temp_files, suspended>>
    /\ LoadedFrame

\* The temporary files left once the response r is produced.
TempFilesAfter(r) == temp_files + r.fx.tmp_created - r.fx.tmp_deleted

\* POST /autotag/wd-vit-tagger-v3, api.py:145-148: the handler starts and
\* yields to the event loop at "await image_upload.read()".
Wdv3Accept ==
    /\ Ready
    /\ ClientFree
    /\ suspended' = Suspend([endpoint |-> "wdv3"])
    /\ UNCHANGED <<req, resp, RRJ_TAGGER_AVAILABLE, temp_files>>
    /\ LoadedFrame

\* The uploads tried on the WDv3 endpoint: its handler saves the image and
\* never looks at its size, so the square one stands for the decodable ones.
Wdv3Images == { i \in ServerImages : i.kind = "ok" => i.w = i.h }

\* api.py:148-181: read() returns the upload and the handler runs to its
\* response without yielding again.
Wdv3Request ==
    /\ Ready
    /\ BagIn([endpoint |-> "wdv3"], suspended)
    /\ suspended' = Resume([endpoint |-> "wdv3"])
    /\ \E image \in Wdv3Images, script_present \in BOOLEAN :
       \E proc \in (IF image.kind = "ok" /\ script_present
                    THEN ProcOutcomes ELSE {None}) :
       \E stdout \in (IF proc = "exit0" THEN Stdouts ELSE {<< >>}) :
       \E unlink_ok \in (IF Wdv3Try(image, script_present, proc, stdout).path_set
                         THEN BOOLEAN ELSE {TRUE}) :
          /\ req' = [endpoint |-> "wdv3", image |-> image,
                     script_present |-> script_present, proc |-> proc,
                     stdout |-> stdout, unlink_ok |-> unlink_ok]
          /\ resp' = Wdv3Endpoint(image, script_present, proc, stdout, unlink_ok)
          /\ temp_files' = TempFilesAfter(resp')
          /\ temp_files' <= MaxLeak
    /\ UNCHANGED RRJ_TAGGER_AVAILABLE
    /\ LoadedFrame

\* Whether a resumed request with this image reaches model(tensor_batch).
RrjReachesModel(image) ==
    /\ image.kind # "undecodable"
    /\ rrj_autotag_func # None
    /\ Transform(image, model.device).result = "tensor"

\* POST /autotag/redrocket-joint-tagger, api.py:185-195: the guard answers
\* 503 at once, the upload of the request left unread; past it the handler
\* yields to the event loop at "await image_upload.read()".
RrjAccept ==
    /\ Ready
    /\ \E threshold \in Thresholds :
          IF RrjGuard(RRJ_TAGGER_AVAILABLE, rrj_autotag_func)
          THEN /\ \E image \in ServerImages :
                     req' = [endpoint |-> "rrj", image |-> image,
                             threshold |-> threshold, run |-> NoRun]
               /\ resp' = RrjUnavailable
               /\ UNCHANGED suspended
          ELSE /\ ClientFree
               /\ suspended' = Suspend([endpoint |-> "rrj", threshold |-> threshold])
               /\ UNCHANGED <<req, resp>>
    /\ UNCHANGED <<RRJ_TAGGER_AVAILABLE, temp_files>>
    /\ LoadedFrame

\* api.py:195-227: read() returns the upload and the handler runs to its
\* response without yielding again.
RrjRequest ==
    /\ Ready
    /\ \E call \in BagToSet(suspended) :
          /\ call.endpoint = "rrj"
          /\ suspended' = Resume(call)
          /\ \E image \in ServerImages :
             \E run \in (IF RrjReachesModel(image) THEN ModelRuns ELSE {NoRun}) :
                /\ req' = [endpoint |-> "rrj", image |-> image,
                           threshold |-> call.threshold, run |-> run]
                /\ resp' = RrjRespond(RrjTry(rrj_autotag_func, allowed_tags, image,
                                             call.threshold, run, model.device))
    /\ RRJ_TAGGER_AVAILABLE' = RrjAvailableAfter(resp')
    /\ UNCHANGED temp_files
    /\ LoadedFrame

\* GET /
RootRequest ==
    /\ Ready
    /\ \E is_file \in BOOLEAN :
          /\ req' = [endpoint |-> "root", is_file |-> is_file]
          /\ resp' = ServeTaggerHtml(is_file)
    /\ UNCHANGED <<RRJ_TAGGER_AVAILABLE, temp_files, suspended>>
    /\ LoadedFrame

\* GET /assets/{file_path}
AssetsRequest ==
    /\ Ready
    /\ \E is_file \in BOOLEAN :
          /\ req' = [endpoint |-> "assets", is_file |-> is_file]
          /\ resp' = ServeStaticFiles(is_file)
    /\ UNCHANGED <<RRJ_TAGGER_AVAILABLE, temp_files, suspended>>
    /\ LoadedFrame

\* The response is sent and the request's data discarded.
Send ==
    /\ pc = "serving"
    /\ resp # NoResp
    /\ req' = NoReq
    /\ resp' = NoResp
    /\ UNCHANGED <<RRJ_TAGGER_AVAILABLE, temp_files, suspended>>
    /\ LoadedFrame

Next ==
    \/ ImportRrjOk
    \/ ImportRrjFailed
    \/ Health
    \/ Wdv3Accept
    \/ Wdv3Request
    \/ RrjAccept
    \/ RrjRequest
    \/ RootRequest
    \/ AssetsRequest
    \/ Send

Spec == Init /\ [][Next]_vars

----------------------------------------------------------------------------
(* Properties of the RRJ result (checked under Spec). *)

\* The last request was answered by the RRJ endpoint with its JSON result.
RrjAnswered == resp.endpoint = "rrj" /\ resp.status = 200

\* The tag names of a result dictionary.
TagSet(d) == { d[i][1] : i \in 1 .. Len(d) }

\* C1: every (tag, score) entry of the dictionary autotag returns, hence of
\* the 'details' of the RRJ response, has score >= threshold.
C1_ScoresAtLeastThreshold ==
    RrjAnswered =>
        \A i \in 1 .. Len(resp.details) : resp.details[i][2] >= req.threshold

\* C1 witness: a result with an entry, for an input where topk also returned
\* a class below the threshold.
C1_Witness ==
    /\ RrjAnswered
    /\ Len(resp.details) >= 1
    /\ \E i \in 1 .. NumTopK :
          req.run.probits[req.run.top_indices[i]] < req.threshold

\* C2 as stated: every class of the vocabulary (every class with a tag name)
\* whose probability is >= threshold has its tag name in the result, whatever
\* the threshold and however many classes qualify.
C2_EveryClassAtThresholdReturned ==
    RrjAnswered =>
        \A c \in Classes :
            (req.run.probits[c] >= req.threshold /\ allowed_tags[c] # EmptyStr)
                => allowed_tags[c] \in TagSet(resp.details)

\* The number of classes at least as probable as c (c included).
RankOf(probits, c) == Cardinality({ d \in Classes : probits[d] >= probits[c] })

\* C2 amended: the result holds exactly the non-empty tag names of the
\* classes topk returned (the min(250, num_classes) most probable) whose
\* probability is >= threshold, each with its probability; so a named class
\* at or above the threshold is certainly in it when at most num_top_k classes
\* are at least as probable, and nothing below the threshold is in it.
C2_TopKAtThresholdReturned ==
    RrjAnswered =>
        /\ TagSet(resp.details) =
              { allowed_tags[req.run.top_indices[i]] :
                  i \in { k \in 1 .. NumTopK :
                            req.run.probits[req.run.top_indices[k]] >= req.threshold } }
              \ { EmptyStr }
        /\ \A c \in Classes :
              ( /\ req.run.probits[c] >= req.threshold
                /\ allowed_tags[c] # EmptyStr
                /\ RankOf(req.run.probits, c) <= NumTopK )
              => <<allowed_tags[c], req.run.probits[c]>>
                    \in { resp.details[i] : i \in 1 .. Len(resp.details) }
        /\ \A i \in 1 .. Len(resp.details) :
              \E c \in Classes :
                  /\ resp.details[i] = <<allowed_tags[c], req.run.probits[c]>>
                  /\ req.run.probits[c] >= req.threshold

\* C2 witness: a named class at the threshold is left out of a result that is
\* full (num_top_k entries), and a class exactly at the threshold is in it.
C2_Witness ==
    /\ RrjAnswered
    /\ Len(resp.details) = NumTopK
    /\ \E c \in Classes :
          /\ req.run.probits[c] >= req.threshold
          /\ allowed_tags[c] # EmptyStr
          /\ allowed_tags[c] \notin TagSet(resp.details)
    /\ \E i \in 1 .. Len(resp.details) : resp.details[i][2] = req.threshold

\* C3: the entries of the returned dictionary come in non-increasing score
\* order, and the 'tags' list of the response holds their names in that order.
C3_DescendingScores ==
    RrjAnswered =>
        /\ \A i, j \in 1 .. Len(resp.details) :
              i < j => resp.details[i][2] >= resp.details[j][2]
        /\ Len(resp.tags) = Len(resp.details)
        /\ \A i \in 1 .. Len(resp.details) : resp.tags[i] = resp.details[i][1]

\* C3 witness: a result of at least two entries with different scores.
C3_Witness ==
    /\ RrjAnswered
    /\ Len(resp.details) >= 2
    /\ resp.details[1][2] > resp.details[2][2]

----------------------------------------------------------------------------
(* The vocabulary (checked under SpecLoad). *)

\* The index the processed name n ends with: that of the last entry of the
\* file whose name becomes n.
LastIndexOf(data, n) ==
    LET at == { i \in 1 .. Len(data) : ReplaceUnderscores(data[i][1]) = n }
    IN  data[CHOOSE i \in at : \A k \in at : k <= i][2]

\* The place of the processed name n in the file: that of the first entry
\* whose name becomes n.
FirstPlaceOf(data, n) ==
    LET at == { i \in 1 .. Len(data) : ReplaceUnderscores(data[i][1]) = n }
    IN  CHOOSE i \in at : \A k \in at : i <= k

\* The non-empty processed names of the file that end with index c.
NamesFor(data, c) ==
    { n \in { ReplaceUnderscores(data[i][1]) : i \in 1 .. Len(data) } :
        n # EmptyStr /\ LastIndexOf(data, n) = c }

\* C4 as stated: once loaded, every class index has a non-empty tag string and
\* no two indices carry the same one.
C4_DenseAndUnique ==
    pc = "loaded" =>
        /\ \A c \in Classes : allowed_tags[c] # EmptyStr
        /\ \A c, d \in Classes : c # d => allowed_tags[c] # allowed_tags[d]

\* C4 amended: once loaded, no two indices carry the same non-empty tag
\* string, and each index holds the first of the file's non-empty names given
\* that index ("keeping first assigned"), or the empty string when the file
\* gives it none: the mapping is dense exactly when the file names every index.
C4_UniqueWhereFilled ==
    pc = "loaded" =>
        /\ \A c, d \in Classes :
              (c # d /\ allowed_tags[c] # EmptyStr) => allowed_tags[c] # allowed_tags[d]
        /\ \A c \in Classes :
              IF NamesFor(tags_data, c) = {}
              THEN allowed_tags[c] = EmptyStr
              ELSE /\ allowed_tags[c] \in NamesFor(tags_data, c)
                   /\ \A n \in NamesFor(tags_data, c) :
                         FirstPlaceOf(tags_data, allowed_tags[c])
                            <= FirstPlaceOf(tags_data, n)

\* C4 witness: a loaded vocabulary with an index left empty and an index two
\* names of the file competed for.
C4_Witness ==
    /\ pc = "loaded"
    /\ \E c \in Classes : allowed_tags[c] = EmptyStr
    /\ \E c \in Classes : Cardinality(NamesFor(tags_data, c)) >= 2

----------------------------------------------------------------------------
(* Properties of the server (checked under Spec). *)

\* C5: once the import has run, no request changes the network, the
\* vocabulary, the availability flag or the imported function.
C5_LoadedStateImmutable ==
    [][ pc = "serving" =>
            /\ model' = model
            /\ allowed_tags' = allowed_tags
            /\ RRJ_TAGGER_AVAILABLE' = RRJ_TAGGER_AVAILABLE
            /\ rrj_autotag_func' = rrj_autotag_func ]_vars

\* C5 witness: an RRJ request has failed in the tagger and the tagger is
\* still available, with its vocabulary loaded.
C5_Witness ==
    /\ pc = "serving"
    /\ resp.endpoint = "rrj"
    /\ resp.status = 500
    /\ resp.fx.model_invoked
    /\ RRJ_TAGGER_AVAILABLE
    /\ allowed_tags = LoadAllowedTags(tags_data)

\* Whether the script output holds the marker.
HasMarker(s) == \E i \in 1 .. Len(s) : s[i] = "Tags:"

\* C6: with the RRJ tagger unavailable, the RRJ endpoint answers 503 without
\* reading or opening the upload and without running the network; the server
\* is serving all the same, and the WDv3 endpoint answers 200 exactly for a
\* good image, a present script exiting 0 and an output with the marker, and
\* 500 otherwise, as it does with the tagger available.
C6_UnavailableAnswers503 ==
    (pc = "serving" /\ (~RRJ_TAGGER_AVAILABLE \/ rrj_autotag_func = None)) =>
        /\ resp.endpoint = "rrj" =>
              /\ resp.status = 503
              /\ ~resp.fx.read
              /\ ~resp.fx.opened
              /\ ~resp.fx.model_invoked
        /\ resp.endpoint = "wdv3" =>
              /\ resp.status \in {200, 500}
              /\ resp.status = 200 <=>
                    /\ req.image.kind = "ok"
                    /\ req.script_present
                    /\ req.proc = "exit0"
                    /\ HasMarker(req.stdout)

\* C6 witness: a request with a good image was answered 503 by the RRJ
\* endpoint of a server whose import failed, its upload unread.
C6_Witness ==
    /\ pc = "serving"
    /\ ~RRJ_TAGGER_AVAILABLE
    /\ resp.endpoint = "rrj"
    /\ req.image.kind = "ok"
    /\ resp.status = 503
    /\ ~resp.fx.read

\* C7: the WDv3 endpoint answers 500, with no tags, when the script is
\* missing, when it exits non-zero and when its output has no 'Tags:' marker;
\* the detail of the parse failure reaches the client unchanged.
C7_Wdv3Failures500 ==
    resp.endpoint = "wdv3" =>
        /\ ( \/ ~req.script_present
             \/ req.proc = "nonzero"
             \/ (req.proc = "exit0" /\ ~HasMarker(req.stdout)) )
           => (resp.status = 500 /\ resp.tags = << >>)
        /\ (req.proc = "exit0" /\ ~HasMarker(req.stdout))
           => resp.detail = ParseFailDetail

\* C7 witness: the script ran, exited 0 and printed something without the
\* marker.
C7_Witness ==
    /\ resp.endpoint = "wdv3"
    /\ req.proc = "exit0"
    /\ req.stdout # << >>
    /\ ~HasMarker(req.stdout)
    /\ resp.fx.script_invoked

\* C8: an upload that cannot be decoded as an image (PIL cannot identify it,
\* or cannot load its data) is answered with a status >= 400 by both tagging
\* endpoints, and neither the script nor the network is run for it.
C8_UndecodableRejected ==
    (resp.endpoint \in {"wdv3", "rrj"} /\ req.image.kind \in {"undecodable", "truncated"})
        => /\ resp.status >= 400
           /\ ~resp.fx.script_invoked
           /\ ~resp.fx.model_invoked

\* C8 witness: the RRJ endpoint of an available tagger read an upload whose
\* data does not load.
C8_Witness ==
    /\ resp.endpoint = "rrj"
    /\ RRJ_TAGGER_AVAILABLE
    /\ req.image.kind = "truncated"
    /\ resp.fx.opened

\* What follows the leftmost marker on its own line.
TagLineRest(s) ==
    LET markers == { i \in 1 .. Len(s) : s[i] = "Tags:" }
        m == CHOOSE i \in markers : \A k \in markers : i <= k
        ends == { i \in (m + 1) .. Len(s) : s[i] = "\n" }
        eol == IF ends = {} THEN Len(s) + 1
               ELSE CHOOSE i \in ends : \A k \in ends : i <= k
    IN  SubSeq(s, m + 1, eol - 1)

\* C9: the 'tags' of a WDv3 response are the comma-separated entries that
\* follow the marker on the script's tag line, stripped, the empty ones
\* dropped, in their order, with no text of any other line.
C9_TagsOfTheTagLine ==
    (resp.endpoint = "wdv3" /\ resp.status = 200)
        => resp.tags = TagsList(TagLineRest(req.stdout))

----------------------------------------------------------------------------
(* The preprocessing pipeline (checked under SpecFit). *)

\* C10: for every image of positive width and height, Fit computes a target
\* height and width in 1..384 and non-negative paddings that sum to the
\* missing width and height, and the pipeline ends with a tensor of shape
\* (3, 384, 384).
C10_PipelineShape ==
    /\ pc # "raised"
    /\ (pc \in {"fitted", "raised"} /\ out.fit.resized) =>
          /\ out.fit.hnew \in 1 .. FitBound
          /\ out.fit.wnew \in 1 .. FitBound
          /\ out.fit.lpad >= 0 /\ out.fit.rpad >= 0
          /\ out.fit.tpad >= 0 /\ out.fit.bpad >= 0
          /\ out.fit.lpad + out.fit.rpad = FitBound - out.fit.wnew
          /\ out.fit.tpad + out.fit.bpad = FitBound - out.fit.hnew
    /\ pc = "transformed" => out.shape = <<3, CropSize, CropSize>>

----------------------------------------------------------------------------
(* api.py:238-250: the files under /assets.  A path string is a sequence of  *)
(* tokens: the characters "/" and "." and whole names, so that every string  *)
(* is spelled by one token sequence ("..", two dots, included).  A location  *)
(* of the file system is the sequence of names leading to it from the root.  *)

\* The longest requested file_path, in tokens.
MaxPath == 4

PathTokens == {"/", ".", "assets", "x.css", "secret", "tagger.html"}

\* Every file_path the route /assets/{file_path:path} can hand the handler.
FilePaths == UNION { [1 .. n -> PathTokens] : n \in 0 .. MaxPath }

\* The installation: api.py lies in /app/autotag, so API_SCRIPT_DIR.parent is
\* /app, the page is /app/tagger.html and the assets directory /app/assets
\* (holding x.css); /secret is a file outside the application.
AppDir == <<"app">>
StaticDir == Append(AppDir, "assets")
FsDirs == { << >>, AppDir, StaticDir, Append(AppDir, "autotag") }
FsFiles == { <<"secret">>, Append(AppDir, "tagger.html"), Append(StaticDir, "x.css") }

\* str.split('/') as pathlib does it: the pieces between the slashes
RECURSIVE SplitSlash(_)
SplitSlash(s) ==
    LET slashes == { i \in 1 .. Len(s) : s[i] = "/" } IN
    IF slashes = {} THEN << s >>
    ELSE LET c == CHOOSE i \in slashes : \A k \in slashes : i <= k
         IN  << SubSeq(s, 1, c - 1) >> \o SplitSlash(SubSeq(s, c + 1, Len(s)))

\* The components "." and "..".
Dot == <<".">>
DotDot == <<".", ".">>

\* pathlib.Path(file_path), api.py:242: absolute when the string starts with
\* a slash; empty and "." components are dropped, ".." components are kept.
ParsePath(s) ==
    LET Kept(piece) == piece # << >> /\ piece # Dot
    IN  [absolute |-> (Len(s) > 0 /\ s[1] = "/"),
         parts |-> SelectSeq(SplitSlash(s), Kept)]

\* static_dir / file_path, api.py:243: an absolute right operand replaces the
\* left one.  The result is absolute: its components from the root.
JoinStatic(path) ==
    IF path.absolute THEN path.parts
    ELSE [i \in 1 .. Len(StaticDir) |-> << StaticDir[i] >>] \o path.parts

ParentOf(loc) == IF loc = << >> THEN loc ELSE SubSeq(loc, 1, Len(loc) - 1)

Missing == [kind |-> "missing", at |-> << >>]

\* What the operating system finds at the components parts[i..], walking
\* from the directory cur: ".." is the parent directory (the root is its own
\* parent), every other component must exist, and only the last may be a file.
\* A component of several tokens other than ".." spells a name the file
\* system does not have.
RECURSIVE Walk(_, _, _)
Walk(cur, parts, i) ==
    IF i > Len(parts) THEN [kind |-> "dir", at |-> cur]
    ELSE IF parts[i] = DotDot THEN Walk(ParentOf(cur), parts, i + 1)
    ELSE IF Len(parts[i]) # 1 THEN Missing
    ELSE IF Append(cur, parts[i][1]) \in FsDirs
         THEN Walk(Append(cur, parts[i][1]), parts, i + 1)
    ELSE IF Append(cur, parts[i][1]) \in FsFiles /\ i = Len(parts)
         THEN [kind |-> "file", at |-> Append(cur, parts[i][1])]
    ELSE Missing

\* The file full_path names, if any: what full_path.is_file() tests
\* (api.py:245) and FileResponse(full_path) sends (api.py:250).
Locate(file_path) == Walk(<< >>, JoinStatic(ParsePath(file_path)), 1)

\* serve_static_files(file_path), api.py:240-250
ServeStaticPath(file_path) == ServeStaticFiles(Locate(file_path).kind = "file")

----------------------------------------------------------------------------
(* SpecAssets: the server answering GET /assets/{file_path} for every path. *)

InitAssets ==
    /\ pc = "serving"
    /\ tags_data = DenseFile
    /\ processed_tags_map = ProcessedTagsMap(DenseFile)
    /\ load_i = Len(processed_tags_map) + 1
    /\ allowed_tags = LoadAllowedTags(DenseFile)
    /\ model = [num_classes |-> NumClasses, training |-> FALSE, device |-> "cpu"]
    /\ RRJ_TAGGER_AVAILABLE = TRUE
    /\ rrj_autotag_func = "autotag"
    /\ temp_files = 0
    /\ req = NoReq
    /\ resp = NoResp
    /\ img = NoImg
    /\ out = NoOut
    /\ suspended = NoneSuspended

\* GET /assets/{file_path}, the path given
AssetsPathRequest ==
    /\ Ready
    /\ \E file_path \in FilePaths :
          /\ req' = [endpoint |-> "assets", file_path |-> file_path,
                     sent |-> Locate(file_path)]
          /\ resp' = ServeStaticPath(file_path)
    /\ UNCHANGED <<RRJ_TAGGER_AVAILABLE, temp_files, suspended>>
    /\ LoadedFrame

NextAssets == AssetsPathRequest \/ Send

SpecAssets == InitAssets /\ [][NextAssets]_vars

\* Whether a location lies inside the assets directory.
InsideAssets(loc) ==
    /\ Len(loc) > Len(StaticDir)
    /\ SubSeq(loc, 1, Len(StaticDir)) = StaticDir

\* C11: GET /assets/{file_path} answers 404 or sends a file located inside
\* the assets directory, whatever the file_path ('..' components and a leading
\* '/' included); it never sends a file located outside it.
C11_OnlyAssetsServed ==
    resp.endpoint = "assets" =>
        /\ resp.status \in {200, 404}
        /\ resp.status = 200 => (req.sent.kind = "file" /\ InsideAssets(req.sent.at))

\* The detail of the WDv3 endpoint's answer when its script is missing.
Wdv3MissingScriptDetail == "WDv3: Server configuration error"

\* A decodable upload the tagging endpoints can be asked about.
ProbeImages == { i \in ServerImages : i.kind = "ok" }

\* C12: /health always answers with status 'ok', and reports a model
\* 'available' only if its tagging endpoint does not fail with the
\* model-unavailable or the missing-script error: redrocket-joint-tagger is
\* 'available' exactly when RRJ initialisation succeeded (its endpoint then
\* does not answer 503), and wd-vit-tagger-v3 is 'available' only when its
\* script can be run (its endpoint then does not answer with the
\* missing-script error).
C12_HealthReportsAvailability ==
    resp.endpoint = "health" =>
        /\ resp.status = 200
        /\ resp.body.status = "ok"
        /\ resp.body.rrj = "available" <=> RRJ_TAGGER_AVAILABLE
        /\ resp.body.rrj = "available" =>
              \A image \in ProbeImages :
                  RrjEndpoint(RRJ_TAGGER_AVAILABLE, rrj_autotag_func, allowed_tags,
                              image, 0, NoRun, model.device).status # 503
        /\ resp.body.wdv3 = "available" =>
              /\ req.script_present
              /\ \A image \in ProbeImages :
                    Wdv3Endpoint(image, req.script_present, "exit0", <<"Tags:", "a">>, TRUE).detail
                        # Wdv3MissingScriptDetail

\* C13: the temporary PNG of a WDv3 request is request-scoped: whatever the
\* outcome of the request (success, decode failure, failure while saving the
\* PNG, missing script, script failure, parse failure), a temporary file
\* created for it is deleted when the response is produced, provided unlink
\* itself succeeds; no request creates a file without one.
C13_TempFileRequestScoped ==
    resp.endpoint = "wdv3" =>
        /\ resp.fx.tmp_created \in {0, 1}
        /\ resp.fx.tmp_deleted <= resp.fx.tmp_created
        /\ req.unlink_ok => resp.fx.tmp_deleted = resp.fx.tmp_created

----------------------------------------------------------------------------
(* SpecCalls: autotag called on one image with the loaded vocabulary, and    *)
(* then called on it again.  Each call runs the network and topk anew        *)
(* (rrj.py:209-214) and is kept with what they gave it.                      *)
(***************************************************************************)

\* Whether the score vectors p and q differ in at most one class, and there
\* by one level.
NearProbits(p, q) ==
    /\ Cardinality({ c \in Classes : p[c] # q[c] }) <= 1
    /\ \A c \in Classes : p[c] - q[c] \in {-1, 0, 1}

\* What model(tensor_batch) and torch.topk can give a second call on the same
\* image, run being what they gave the first: nothing when the transform
\* raised before them; otherwise the forward pass can fail, the scores can
\* repeat or come out a level apart in one class (the code sets no seed and
\* asks for no deterministic algorithms), and topk orders tied scores as it
\* pleases; after a failed forward pass, any outcome.
Rerun(run) ==
    IF run = NoRun THEN {NoRun}
    ELSE IF run.forward # "ok" THEN ModelRuns
    ELSE { r \in ModelRuns : r.forward = "ok" => NearProbits(run.probits, r.probits) }

InitCalls ==
    /\ pc = "serving"
    /\ tags_data \in ServerTagFiles
    /\ processed_tags_map = ProcessedTagsMap(tags_data)
    /\ load_i = Len(processed_tags_map) + 1
    /\ allowed_tags = LoadAllowedTags(tags_data)
    /\ model \in [num_classes : {NumClasses}, training : {FALSE}, device : Devices]
    /\ RRJ_TAGGER_AVAILABLE = TRUE
    /\ rrj_autotag_func = "autotag"
    /\ temp_files = 0
    /\ \E image \in ProbeImages : req = [endpoint |-> "autotag", image |-> image]
    /\ resp = [endpoint |-> "autotag", calls |-> << >>]
    /\ img = NoImg
    /\ out = NoOut
    /\ suspended = NoneSuspended

\* One call autotag(image, threshold) on the image of req, run being what
\* the forward pass and topk of this call give: the call as it is kept.
AutotagCall(threshold, run) ==
    [threshold |-> threshold,
     run |-> run,
     outcome |-> Autotag(req.image, threshold, run, allowed_tags, model.device)]

\* The first call on the image.
AutotagFirst ==
    /\ resp.calls = << >>
    /\ \E threshold \in Thresholds :
       \E run \in (IF RrjReachesModel(req.image) THEN ModelRuns ELSE {NoRun}) :
          resp' = [resp EXCEPT !.calls = << AutotagCall(threshold, run) >>]
    /\ UNCHANGED <<req, RRJ_TAGGER_AVAILABLE, temp_files, suspended>>
    /\ LoadedFrame

\* The second call on the same image, with a threshold of its own and its own
\* forward pass and topk.
AutotagAgain ==
    /\ Len(resp.calls) = 1
    /\ \E threshold \in Thresholds :
       \E run \in Rerun(resp.calls[1].run) :
          resp' = [resp EXCEPT !.calls = Append(@, AutotagCall(threshold, run))]
    /\ UNCHANGED <<req, RRJ_TAGGER_AVAILABLE, temp_files, suspended>>
    /\ LoadedFrame

NextCalls ==
    \/ AutotagFirst
    \/ AutotagAgain

SpecCalls == InitCalls /\ [][NextCalls]_vars

\* Whether the dict a is a prefix of the dict b: the same keys with the same
\* values in the same order, b possibly going on.
IsPrefix(a, b) == Len(a) <= Len(b) /\ SubSeq(b, 1, Len(a)) = a

====
